---- MODULE Spec2Model ----
(***************************************************************************)
(* Model of crates/core/src/config/mod.rs of ajour: the directory          *)
(* resolvers of Config (get_*_directory_for_flavor), the ColumnConfig      *)
(* schema and the default filling of Config.                               *)
(*                                                                         *)
(* A file name is a sequence of one-character strings, a path is a         *)
(* sequence of file names below "/", and the filesystem is the set of the  *)
(* paths that exist (every entry is a directory; the filesystem is case    *)
(* sensitive).                                                             *)
(***************************************************************************)
EXTENDS Integers, Sequences, FiniteSets, TLC

VARIABLES
    directories,   \* self.wow.directories.get(flavor) : None or Some(directory)
    fs,            \* the paths that exist on disk
    called,        \* the resolver called last ("none" before the first call)
    arg,           \* its flavor argument
    ret,           \* what it returned: None, Some(path), or a panic
    searched,      \* whether it ran the glob search
    created,       \* its create_dir_all: "none" (not called), "ok", "failed"
    value,         \* a ColumnConfig held in memory
    doc,           \* a persisted document
    parsed,        \* the result of deserializing doc
    pc             \* position of the serialization process

vars == <<directories, fs, called, arg, ret, searched, created, value, doc, parsed, pc>>

resolverVars == <<directories, fs, called, arg, ret, searched, created>>
serdeVars == <<value, doc, parsed, pc>>

----------------------------------------------------------------------------
(* Characters, in ASCII order: '?' < 'A'..'Z' < '[' < ']' < '_' < 'a'..'z' *)

Ascii ==
    <<"?",
      "A", "B", "C", "D", "E", "F", "G", "H", "I", "J", "K", "L", "M",
      "N", "O", "P", "Q", "R", "S", "T", "U", "V", "W", "X", "Y", "Z",
      "[", "]", "_",
      "a", "b", "c", "d", "e", "f", "g", "h", "i", "j", "k", "l", "m",
      "n", "o", "p", "q", "r", "s", "t", "u", "v", "w", "x", "y", "z">>

Code(c) == CHOOSE i \in 1..Len(Ascii) : Ascii[i] = c

Uppercase == {Ascii[i] : i \in 2..27}

\* char::to_ascii_lowercase
ToAsciiLowercase(c) ==
    IF c \in Uppercase THEN Ascii[Code(c) + 29] ELSE c

\* byte-wise order of two file names (OsStr::cmp)
NameLess(a, b) ==
    \E k \in 1..(Len(a) + 1) :
        /\ \A i \in 1..(k - 1) : i <= Len(b) /\ a[i] = b[i]
        /\ k <= Len(b)
        /\ (k <= Len(a) => Code(a[k]) < Code(b[k]))

\* order in which glob yields two paths of the same depth (sorted directory walk)
PathLess(p, q) ==
    \E k \in 1..Len(p) :
        /\ \A i \in 1..(k - 1) : p[i] = q[i]
        /\ NameLess(p[k], q[k])

----------------------------------------------------------------------------
(* The names of the source *)

Interface == <<"I", "n", "t", "e", "r", "f", "a", "c", "e">>
AddOns == <<"A", "d", "d", "O", "n", "s">>
WTF == <<"W", "T", "F">>

\* "Interface/AddOns" and "WTF", as PathBuf::join splits them
AddonSubPath == <<Interface, AddOns>>
WtfSubPath == <<WTF>>

\* the glob patterns appended to the directory
AddonPattern ==
    << <<"?", "n", "t", "e", "r", "f", "a", "c", "e">>,
       <<"?", "d", "d", "o", "n", "s">> >>
WtfPattern == << <<"?", "t", "f">> >>

Flavors == {"Retail", "Classic"}

\* the recorded directories the model draws from: an ordinary one and one
\* whose name holds the glob metacharacter '['
Wow == <<"w", "o", "w">>
RetailDir == <<Wow, <<"_", "r", "e", "t", "a", "i", "l", "_">>>>
BracketDir == <<Wow, <<"[", "p", "t", "r">>>>
Roots == {RetailDir, BracketDir}

\* names a user or another filesystem may have left under a directory
LowerInterface == <<"i", "n", "t", "e", "r", "f", "a", "c", "e">>
LowerAddons == <<"a", "d", "d", "o", "n", "s">>
Enterface == <<"e", "n", "t", "e", "r", "f", "a", "c", "e">>
Oddons == <<"o", "d", "d", "o", "n", "s">>
LowerWtf == <<"w", "t", "f">>
Xtf == <<"x", "t", "f">>

\* every path the model's filesystem may hold
AllPaths ==
    {<<Wow>>, RetailDir, BracketDir}
    \cup {RetailDir \o s : s \in {<<Interface>>, <<Interface, AddOns>>,
                                  <<LowerInterface>>, <<LowerInterface, LowerAddons>>,
                                  <<LowerInterface, Oddons>>,
                                  <<Enterface>>, <<Enterface, Oddons>>,
                                  <<WTF>>, <<LowerWtf>>, <<Xtf>>}}
    \cup {BracketDir \o s : s \in {<<Interface>>, <<Interface, AddOns>>}}

Prefixes(p) == {SubSeq(p, 1, n) : n \in 1..Len(p)}

PrefixClosed(S) == \A p \in S : Prefixes(p) \subseteq S

\* Path::exists ("/" itself always exists)
Exists(disk, p) == p = <<>> \/ p \in disk

----------------------------------------------------------------------------
(* glob::Pattern and glob::glob_with, as called at lines 102 and 150 *)

\* position of the first ']' of chars at or after position from, 0 if none
ClosingBracket(chars, from) ==
    IF \E j \in from..Len(chars) : chars[j] = "]"
    THEN CHOOSE j \in from..Len(chars) :
            chars[j] = "]" /\ \A k \in from..(j - 1) : chars[k] # "]"
    ELSE 0

RECURSIVE ParseFrom(_, _)
\* Pattern::new on one component: its tokens, or an error
ParseFrom(chars, i) ==
    IF i > Len(chars) THEN [ok |-> TRUE, tokens |-> <<>>]
    ELSE IF chars[i] = "?" THEN
        LET rest == ParseFrom(chars, i + 1)
        IN [ok |-> rest.ok, tokens |-> <<[t |-> "AnyChar", cs |-> {}]>> \o rest.tokens]
    ELSE IF chars[i] = "[" THEN
        LET j == IF i + 2 <= Len(chars) THEN ClosingBracket(chars, i + 2) ELSE 0
        IN IF j = 0 THEN [ok |-> FALSE, tokens |-> <<>>]
           ELSE LET rest == ParseFrom(chars, j + 1)
                IN [ok |-> rest.ok,
                    tokens |-> <<[t |-> "AnyWithin",
                                  cs |-> {chars[k] : k \in (i + 1)..(j - 1)}]>>
                               \o rest.tokens]
    ELSE
        LET rest == ParseFrom(chars, i + 1)
        IN [ok |-> rest.ok, tokens |-> <<[t |-> "Char", cs |-> {chars[i]}]>> \o rest.tokens]

PatternNew(chars) == ParseFrom(chars, 1)

\* the pattern text is not a valid glob pattern (PatternError)
PatternError(pattern) == \E i \in 1..Len(pattern) : ~PatternNew(pattern[i]).ok

\* a token against one character, with MatchOptions { case_sensitive: false }
TokenMatches(tok, c) ==
    CASE tok.t = "AnyChar" -> TRUE
      [] tok.t = "AnyWithin" ->
            \E x \in tok.cs : ToAsciiLowercase(x) = ToAsciiLowercase(c)
      [] OTHER -> \E x \in tok.cs : ToAsciiLowercase(x) = ToAsciiLowercase(c)

\* a component made of plain characters only is looked up as it is written
IsLiteral(tokens) == \A i \in 1..Len(tokens) : tokens[i].t = "Char"

\* one compiled component against one file name
ComponentMatches(tokens, chars, name) ==
    IF IsLiteral(tokens) THEN name = chars
    ELSE /\ Len(name) = Len(tokens)
         /\ \A i \in 1..Len(tokens) : TokenMatches(tokens[i], name[i])

\* the paths glob_with yields for a valid pattern
GlobMatches(disk, pattern) ==
    LET compiled == [i \in 1..Len(pattern) |-> PatternNew(pattern[i]).tokens]
    IN {p \in disk :
            /\ Len(p) = Len(pattern)
            /\ \A i \in 1..Len(p) : ComponentMatches(compiled[i], pattern[i], p[i])}

\* the value the loop `for entry in glob { addon_dir = path }` leaves in addon_dir
LastMatch(disk, pattern, addon_dir) ==
    LET found == GlobMatches(disk, pattern)
    IN IF found = {} THEN addon_dir
       ELSE CHOOSE p \in found : \A q \in found : q = p \/ PathLess(q, p)

----------------------------------------------------------------------------
(* Results *)

None == [kind |-> "None", path |-> <<>>]
Some(p) == [kind |-> "Some", path |-> p]
Panic == [kind |-> "Panic", path |-> <<>>]
Unset == [kind |-> "Unset", path |-> <<>>]

\* Path::parent
Parent(p) == IF Len(p) = 0 THEN None ELSE Some(SubSeq(p, 1, Len(p) - 1))

----------------------------------------------------------------------------
(* The resolvers of Config *)

\* get_root_directory_for_flavor: flavor_dir.parent().unwrap()
RootResolve(dirs, flavor) ==
    LET dir == dirs[flavor]
    IN IF dir.kind = "Some"
       THEN IF Parent(dir.path).kind = "None" THEN Panic ELSE Parent(dir.path)
       ELSE None

\* a get_download_directory_for_flavor that falls back to an empty path
DownloadResolveOrEmpty(dirs, flavor) ==
    IF dirs[flavor].kind = "None" THEN Some(<<>>) ELSE dirs[flavor]

\* get_download_directory_for_flavor
DownloadResolve(dirs, flavor) == dirs[flavor]

\* a get_addon_directory_for_flavor without the `if !addon_dir.exists()` guard
\* of the search
AddonResolveAlwaysSearching(dirs, disk, flavor) ==
    LET dir == dirs[flavor]
    IN IF dir.kind = "None"
       THEN [ret |-> None, searched |-> FALSE, create |-> FALSE]
       ELSE LET exact == dir.path \o AddonSubPath
                pattern == dir.path \o AddonPattern
            IN IF PatternError(pattern)
               THEN [ret |-> Panic, searched |-> TRUE, create |-> FALSE]
               ELSE LET addon_dir == LastMatch(disk, pattern, exact)
                    IN [ret |-> Some(addon_dir), searched |-> TRUE,
                        create |-> Exists(disk, dir.path) /\ ~Exists(disk, addon_dir)]

\* get_addon_directory_for_flavor up to its create_dir_all: the value returned,
\* whether the glob search ran, and whether create_dir_all is called
AddonResolve(dirs, disk, flavor) ==
    LET dir == dirs[flavor]
    IN IF dir.kind = "None"
       THEN [ret |-> None, searched |-> FALSE, create |-> FALSE]
       ELSE LET exact == dir.path \o AddonSubPath
                pattern == dir.path \o AddonPattern
            IN IF Exists(disk, exact)
               THEN [ret |-> Some(exact), searched |-> FALSE, create |-> FALSE]
               ELSE IF PatternError(pattern)
               THEN [ret |-> Panic, searched |-> TRUE, create |-> FALSE]
               ELSE LET addon_dir == LastMatch(disk, pattern, exact)
                    IN [ret |-> Some(addon_dir), searched |-> TRUE,
                        create |-> Exists(disk, dir.path) /\ ~Exists(disk, addon_dir)]

\* get_wtf_directory_for_flavor: the value returned and whether the search ran
WtfResolve(dirs, disk, flavor) ==
    LET dir == dirs[flavor]
    IN IF dir.kind = "None"
       THEN [ret |-> None, searched |-> FALSE]
       ELSE LET exact == dir.path \o WtfSubPath
                pattern == dir.path \o WtfPattern
            IN IF Exists(disk, exact)
               THEN [ret |-> Some(exact), searched |-> FALSE]
               ELSE IF PatternError(pattern)
               THEN [ret |-> Panic, searched |-> TRUE]
               ELSE [ret |-> Some(LastMatch(disk, pattern, exact)), searched |-> TRUE]

\* the disks create_dir_all(target) may leave when it fails: it has made none,
\* or only some, of the missing directories below the existing directory dir
PartlyCreated(disk, dir, target) ==
    {disk \cup Prefixes(SubSeq(target, 1, n)) : n \in Len(dir)..(Len(target) - 1)}

GetRootDirectoryForFlavor(flavor) ==
    /\ called' = "root"
    /\ arg' = flavor
    /\ ret' = RootResolve(directories, flavor)
    /\ searched' = FALSE
    /\ created' = "none"
    /\ UNCHANGED <<directories, fs, serdeVars>>

GetDownloadDirectoryForFlavor(flavor) ==
    /\ called' = "download"
    /\ arg' = flavor
    /\ ret' = DownloadResolve(directories, flavor)
    /\ searched' = FALSE
    /\ created' = "none"
    /\ UNCHANGED <<directories, fs, serdeVars>>

GetAddonDirectoryForFlavor(flavor) ==
    LET r == AddonResolve(directories, fs, flavor)
    IN /\ called' = "addon"
       /\ arg' = flavor
       /\ ret' = r.ret
       /\ searched' = r.searched
       /\ IF r.create
          THEN \/ /\ created' = "ok"
                  /\ fs' = fs \cup Prefixes(r.ret.path)
               \/ /\ created' = "failed"
                  /\ fs' \in PartlyCreated(fs, directories[flavor].path, r.ret.path)
          ELSE /\ created' = "none"
               /\ fs' = fs
       /\ UNCHANGED <<directories, serdeVars>>

\* a get_wtf_directory_for_flavor that creates the directory as the addon
\* resolver does
GetWtfDirectoryForFlavorCreating(flavor) ==
    LET r == WtfResolve(directories, fs, flavor)
    IN /\ called' = "wtf"
       /\ arg' = flavor
       /\ ret' = r.ret
       /\ searched' = r.searched
       /\ IF /\ r.ret.kind = "Some"
             /\ Exists(fs, directories[flavor].path)
             /\ ~Exists(fs, r.ret.path)
          THEN /\ created' = "ok"
               /\ fs' = fs \cup Prefixes(r.ret.path)
          ELSE /\ created' = "none"
               /\ fs' = fs
       /\ UNCHANGED <<directories, serdeVars>>

GetWtfDirectoryForFlavor(flavor) ==
    LET r == WtfResolve(directories, fs, flavor)
    IN /\ called' = "wtf"
       /\ arg' = flavor
       /\ ret' = r.ret
       /\ searched' = r.searched
       /\ created' = "none"
       /\ UNCHANGED <<directories, fs, serdeVars>>

Disks == {S \in SUBSET AllPaths : PrefixClosed(S)}

Init ==
    /\ directories \in [Flavors -> {None} \cup {Some(r) : r \in Roots}]
    /\ fs \in Disks
    /\ called = "none"
    /\ arg = "none"
    /\ ret = Unset
    /\ searched = FALSE
    /\ created = "none"
    /\ value = Unset
    /\ doc = Unset
    /\ parsed = Unset
    /\ pc = "idle"

Next ==
    \E flavor \in Flavors :
        \/ GetRootDirectoryForFlavor(flavor)
        \/ GetAddonDirectoryForFlavor(flavor)
        \/ GetDownloadDirectoryForFlavor(flavor)
        \/ GetWtfDirectoryForFlavor(flavor)

Spec == Init /\ [][Next]_vars

----------------------------------------------------------------------------
(* ColumnConfig and its persisted form *)

MaxColumns == 1

\* values of the persisted document
YamlNull == [y |-> "null"]
YamlInt(n) == [y |-> "int", n |-> n]
YamlStr(str) == [y |-> "str", s |-> str]
YamlBool(b) == [y |-> "bool", b |-> b]
YamlSeq(items) == [y |-> "seq", items |-> items]
YamlMap(map) == [y |-> "map", map |-> map]
\* an enum variant with fields, written as a map of one key, the variant's name
YamlVariant(name, map) == [y |-> "variant", variant |-> name, map |-> map]

Ok(v) == [ok |-> TRUE, value |-> v]
Err == [ok |-> FALSE]

\* Option<T>
OptNone == [some |-> FALSE]
OptSome(v) == [some |-> TRUE, v |-> v]

\* the ColumnConfigV2 values and the lists of them the model draws from
WidthSamples == {OptNone, OptSome(100)}
ColumnConfigV2 ==
    [key : {"title"}, width : WidthSamples, hidden : BOOLEAN]
ColumnLists == UNION {[1..n -> ColumnConfigV2] : n \in 0..MaxColumns}

V1(local, remote, status) ==
    [tag |-> "V1", local_version_width |-> local, remote_version_width |-> remote,
     status_width |-> status]
V2(columns) == [tag |-> "V2", columns |-> columns]
V3(my_addons, catalog, aura) ==
    [tag |-> "V3", my_addons_columns |-> my_addons, catalog_columns |-> catalog,
     aura_columns |-> aura]

V1Widths == {85, 150}

ColumnConfigs ==
    {V1(a, b, c) : a \in V1Widths, b \in V1Widths, c \in V1Widths}
    \cup {V2(l) : l \in ColumnLists}
    \cup {V3(a, b, c) : a \in ColumnLists, b \in ColumnLists, c \in ColumnLists}

\* impl Default for ColumnConfig
ColumnConfigDefault == V1(150, 150, 85)

\* derive(Serialize) of ColumnConfigV2: Option<u16> is written as null or the number
SerializeColumn(c) ==
    YamlMap([key |-> YamlStr(c.key),
             width |-> IF c.width.some THEN YamlInt(c.width.v) ELSE YamlNull,
             hidden |-> YamlBool(c.hidden)])

SerializeColumns(l) == YamlSeq([i \in 1..Len(l) |-> SerializeColumn(l[i])])

\* derive(Serialize) of ColumnConfig: the variant's name, then its fields
SerializeColumnConfig(v) ==
    CASE v.tag = "V1" ->
            YamlVariant("V1",
                [local_version_width |-> YamlInt(v.local_version_width),
                 remote_version_width |-> YamlInt(v.remote_version_width),
                 status_width |-> YamlInt(v.status_width)])
      [] v.tag = "V2" ->
            YamlVariant("V2", [columns |-> SerializeColumns(v.columns)])
      [] v.tag = "V3" ->
            YamlVariant("V3",
                [my_addons_columns |-> SerializeColumns(v.my_addons_columns),
                 catalog_columns |-> SerializeColumns(v.catalog_columns),
                 aura_columns |-> SerializeColumns(v.aura_columns)])

HasInt(map, field) == field \in DOMAIN map /\ map[field].y = "int"
HasSeq(map, field) == field \in DOMAIN map /\ map[field].y = "seq"

\* derive(Deserialize) of ColumnConfigV2: key and hidden are required, an absent
\* or null width is None
DeserializeColumn(d) ==
    IF /\ d.y = "map"
       /\ "key" \in DOMAIN d.map /\ d.map["key"].y = "str"
       /\ "hidden" \in DOMAIN d.map /\ d.map["hidden"].y = "bool"
       /\ "width" \in DOMAIN d.map => d.map["width"].y \in {"null", "int"}
    THEN Ok([key |-> d.map["key"].s,
             width |-> IF "width" \in DOMAIN d.map /\ d.map["width"].y = "int"
                       THEN OptSome(d.map["width"].n) ELSE OptNone,
             hidden |-> d.map["hidden"].b])
    ELSE Err

DeserializeColumns(d) ==
    IF d.y = "seq" /\ \A i \in 1..Len(d.items) : DeserializeColumn(d.items[i]).ok
    THEN Ok([i \in 1..Len(d.items) |-> DeserializeColumn(d.items[i]).value])
    ELSE Err

ColumnsField(map, field) ==
    IF HasSeq(map, field) THEN DeserializeColumns(map[field]) ELSE Err

\* a deserialization that migrates a V2 document to the V3 shape while reading
DeserializeColumnConfigMigrating(d) ==
    IF d.y # "variant" THEN Err
    ELSE CASE d.variant = "V1" ->
                IF /\ HasInt(d.map, "local_version_width")
                   /\ HasInt(d.map, "remote_version_width")
                   /\ HasInt(d.map, "status_width")
                THEN Ok(V1(d.map["local_version_width"].n,
                           d.map["remote_version_width"].n,
                           d.map["status_width"].n))
                ELSE Err
           [] d.variant = "V2" ->
                IF ColumnsField(d.map, "columns").ok
                THEN Ok(V3(ColumnsField(d.map, "columns").value, <<>>, <<>>))
                ELSE Err
           [] d.variant = "V3" ->
                LET my == ColumnsField(d.map, "my_addons_columns")
                    catalog == ColumnsField(d.map, "catalog_columns")
                    aura == IF "aura_columns" \in DOMAIN d.map
                            THEN ColumnsField(d.map, "aura_columns")
                            ELSE Ok(<<>>)
                IN IF my.ok /\ catalog.ok /\ aura.ok
                   THEN Ok(V3(my.value, catalog.value, aura.value))
                   ELSE Err
           [] OTHER -> Err

\* derive(Deserialize) of ColumnConfig: the variant named by the document, with
\* its required fields; aura_columns has #[serde(default)]
DeserializeColumnConfig(d) ==
    IF d.y # "variant" THEN Err
    ELSE CASE d.variant = "V1" ->
                IF /\ HasInt(d.map, "local_version_width")
                   /\ HasInt(d.map, "remote_version_width")
                   /\ HasInt(d.map, "status_width")
                THEN Ok(V1(d.map["local_version_width"].n,
                           d.map["remote_version_width"].n,
                           d.map["status_width"].n))
                ELSE Err
           [] d.variant = "V2" ->
                IF ColumnsField(d.map, "columns").ok
                THEN Ok(V2(ColumnsField(d.map, "columns").value))
                ELSE Err
           [] d.variant = "V3" ->
                LET my == ColumnsField(d.map, "my_addons_columns")
                    catalog == ColumnsField(d.map, "catalog_columns")
                    aura == IF "aura_columns" \in DOMAIN d.map
                            THEN ColumnsField(d.map, "aura_columns")
                            ELSE Ok(<<>>)
                IN IF my.ok /\ catalog.ok /\ aura.ok
                   THEN Ok(V3(my.value, catalog.value, aura.value))
                   ELSE Err
           [] OTHER -> Err

\* documents found on disk that no serialization of this model wrote: a V3
\* document of a version without aura_columns, a V1 document short of a field,
\* and a document of an unknown version
ForeignDocuments ==
    {YamlVariant("V3", [my_addons_columns |-> SerializeColumns(l),
                        catalog_columns |-> SerializeColumns(<<>>)]) : l \in ColumnLists}
    \cup {YamlVariant("V1", [local_version_width |-> YamlInt(150)]),
          YamlVariant("V4", [columns |-> SerializeColumns(<<>>)])}

\* the resolver state while the serialization processes run
ResolverIdle ==
    /\ directories = [f \in Flavors |-> None]
    /\ fs = {}
    /\ called = "none"
    /\ arg = "none"
    /\ ret = Unset
    /\ searched = FALSE
    /\ created = "none"

ColumnInit ==
    /\ ResolverIdle
    /\ parsed = Unset
    /\ \/ /\ pc = "value"
          /\ value \in ColumnConfigs
          /\ doc = Unset
       \/ /\ pc = "doc"
          /\ value = Unset
          /\ doc \in ForeignDocuments

SaveColumnConfig ==
    /\ pc = "value"
    /\ doc' = SerializeColumnConfig(value)
    /\ pc' = "doc"
    /\ UNCHANGED <<value, parsed, resolverVars>>

LoadColumnConfig ==
    /\ pc = "doc"
    /\ parsed' = DeserializeColumnConfig(doc)
    /\ pc' = "parsed"
    /\ UNCHANGED <<value, doc, resolverVars>>

ColumnNext == SaveColumnConfig \/ LoadColumnConfig

SpecColumn == ColumnInit /\ [][ColumnNext]_vars

\* C7: serializing a ColumnConfig of version V1, V2 or V3 and deserializing the
\* result succeeds and yields the original value under the same version tag.
C7_RoundTrip ==
    (pc = "parsed" /\ value # Unset)
        => (parsed.ok /\ parsed.value = value /\ parsed.value.tag = value.tag)

\* a V3 value with a column of width None and a non-empty aura list has been
\* written and read back
C7_Witness ==
    /\ pc = "parsed"
    /\ value # Unset
    /\ value.tag = "V3"
    /\ Len(value.aura_columns) > 0
    /\ ~value.aura_columns[1].width.some
    /\ parsed = Ok(value)

----------------------------------------------------------------------------
(* Config and its default filling *)

\* the fields of Config in declaration order: the type of each, and its serde
\* attribute ("default", "default_true" for default = "default_true", "" for none)
ConfigFields ==
    [wow |-> [type |-> "Wow", attr |-> "default"],
     addons |-> [type |-> "Addons", attr |-> "default"],
     theme |-> [type |-> "Option", attr |-> ""],
     column_config |-> [type |-> "ColumnConfig", attr |-> "default"],
     window_size |-> [type |-> "Option", attr |-> ""],
     scale |-> [type |-> "Option", attr |-> ""],
     backup_directory |-> [type |-> "Option", attr |-> ""],
     backup_addons |-> [type |-> "bool", attr |-> "default"],
     backup_wtf |-> [type |-> "bool", attr |-> "default"],
     hide_ignored_addons |-> [type |-> "bool", attr |-> "default"],
     self_update_channel |-> [type |-> "SelfUpdateChannel", attr |-> "default"],
     weak_auras_account |-> [type |-> "HashMap", attr |-> "default"],
     alternating_row_colors |-> [type |-> "bool", attr |-> "default_true"],
     language |-> [type |-> "Language", attr |-> "default"],
     catalog_source |-> [type |-> "Option", attr |-> "default"],
     auto_update |-> [type |-> "bool", attr |-> "default"]]

ConfigKeys == DOMAIN ConfigFields

SelfUpdateChannels == {"Stable", "Beta"}

Languages ==
    {"Czech", "Norwegian", "English", "Danish", "German", "French", "Hungarian",
     "Portuguese", "Russian", "Slovak", "Swedish", "Spanish", "Turkish", "Ukrainian"}

\* impl Default for SelfUpdateChannel
SelfUpdateChannelDefault == "Stable"

\* impl Default for Language
LanguageDefault == "English"

\* a default_true that returns false
default_false == FALSE

\* const fn default_true
default_true == TRUE

\* Default::default() of a field's type
TypeDefault(type) ==
    CASE type = "bool" -> FALSE
      [] type = "Option" -> OptNone
      [] type = "ColumnConfig" -> ColumnConfigDefault
      [] type = "SelfUpdateChannel" -> SelfUpdateChannelDefault
      [] type = "Language" -> LanguageDefault
      [] type = "HashMap" -> <<>>
      [] type = "Wow" -> [directories |-> <<>>]
      [] type = "Addons" -> [ignored |-> <<>>]

\* derive(Default) of Config: every field is its type's Default::default()
ConfigDefault == [k \in ConfigKeys |-> TypeDefault(ConfigFields[k].type)]

\* what derive(Deserialize) puts in a field whose key is absent
MissingField(k) ==
    LET f == ConfigFields[k]
    IN CASE f.attr = "default" -> Ok(TypeDefault(f.type))
         [] f.attr = "default_true" -> Ok(default_true)
         [] f.type = "Option" -> Ok(OptNone)
         [] OTHER -> Err

\* what derive(Deserialize) puts in a field whose key is present
PresentField(k, d) ==
    LET type == ConfigFields[k].type
    IN CASE type = "bool" -> IF d.y = "bool" THEN Ok(d.b) ELSE Err
         [] type = "Option" -> IF d.y = "null" THEN Ok(OptNone) ELSE Ok(OptSome(d))
         [] type = "ColumnConfig" -> DeserializeColumnConfig(d)
         [] type = "SelfUpdateChannel" ->
                IF d.y = "str" /\ d.s \in SelfUpdateChannels THEN Ok(d.s) ELSE Err
         [] type = "Language" ->
                IF d.y = "str" /\ d.s \in Languages THEN Ok(d.s) ELSE Err
         [] OTHER -> IF d.y = "map" THEN Ok(d.map) ELSE Err

\* derive(Deserialize) of Config on a document, a map from top-level keys to values
DeserializeConfig(d) ==
    LET field(k) == IF k \in DOMAIN d THEN PresentField(k, d[k]) ELSE MissingField(k)
    IN IF \A k \in ConfigKeys : field(k).ok
       THEN Ok([k \in ConfigKeys |-> field(k).value])
       ELSE Err

\* the value a persisted document holds under each key when the key is present
PersistedValue ==
    [wow |-> YamlMap([directories |-> <<RetailDir>>]),
     addons |-> YamlMap([ignored |-> <<"addon">>]),
     theme |-> YamlStr("Dark"),
     column_config |-> SerializeColumnConfig(V2(<<>>)),
     window_size |-> YamlSeq(<<YamlInt(900), YamlInt(620)>>),
     scale |-> YamlInt(2),
     backup_directory |-> YamlStr("backup"),
     backup_addons |-> YamlBool(TRUE),
     backup_wtf |-> YamlBool(TRUE),
     hide_ignored_addons |-> YamlBool(TRUE),
     self_update_channel |-> YamlStr("Beta"),
     weak_auras_account |-> YamlMap([Retail |-> "account"]),
     alternating_row_colors |-> YamlBool(FALSE),
     language |-> YamlStr("German"),
     catalog_source |-> YamlStr("Curse"),
     auto_update |-> YamlBool(TRUE)]

ConfigDocuments == {[k \in present |-> PersistedValue[k]] : present \in SUBSET ConfigKeys}

ConfigInit ==
    /\ ResolverIdle
    /\ value = Unset
    /\ parsed = Unset
    /\ \/ /\ pc = "file"
          /\ doc \in ConfigDocuments
       \/ /\ pc = "no file"
          /\ doc = Unset

\* load_or_default when the persisted file is read: the document is deserialized
LoadConfig ==
    /\ pc = "file"
    /\ parsed' = DeserializeConfig(doc)
    /\ pc' = "loaded"
    /\ UNCHANGED <<value, doc, resolverVars>>

\* load_or_default when there is no persisted file: Config::default()
DefaultConfig ==
    /\ pc = "no file"
    /\ parsed' = Ok(ConfigDefault)
    /\ pc' = "defaulted"
    /\ UNCHANGED <<value, doc, resolverVars>>

ConfigNext == LoadConfig \/ DefaultConfig

SpecConfig == ConfigInit /\ [][ConfigNext]_vars

AbsentKeys == ConfigKeys \ DOMAIN doc

\* C8: deserializing a Config document succeeds whichever top-level keys are
\* absent, and each absent field holds its documented default:
\* alternating_row_colors true, every other boolean false, every optional field
\* None, column_config V1 150/150/85, language English, self_update_channel Stable.
C8_AbsentKeysDefault ==
    pc = "loaded" =>
        /\ parsed.ok
        /\ "alternating_row_colors" \in AbsentKeys
                => parsed.value["alternating_row_colors"] = TRUE
        /\ \A k \in AbsentKeys \cap {"backup_addons", "backup_wtf",
                                      "hide_ignored_addons", "auto_update"} :
                parsed.value[k] = FALSE
        /\ \A k \in AbsentKeys \cap {"theme", "window_size", "scale",
                                      "backup_directory", "catalog_source"} :
                parsed.value[k] = OptNone
        /\ "column_config" \in AbsentKeys
                => parsed.value["column_config"] = V1(150, 150, 85)
        /\ "language" \in AbsentKeys => parsed.value["language"] = "English"
        /\ "self_update_channel" \in AbsentKeys
                => parsed.value["self_update_channel"] = "Stable"

\* a document with every key absent has been deserialized
C8_Witness ==
    /\ pc = "loaded"
    /\ DOMAIN doc = {}
    /\ parsed.ok
    /\ parsed.value["alternating_row_colors"] = TRUE
    /\ parsed.value["theme"] = OptNone

\* C10 (as claimed): the Config that load-or-default constructs when there is no
\* persisted file equals, field for field, the Config deserialized from a document
\* with every key absent; alternating_row_colors is true in both.
C10_DefaultEqualsEmptyDocument ==
    pc = "defaulted" =>
        /\ parsed = DeserializeConfig(<<>>)
        /\ parsed.value["alternating_row_colors"] = TRUE

----------------------------------------------------------------------------
(* Properties of the resolvers *)

\* two paths that are equal under a case-insensitive comparison
CaseInsensitiveEqual(p, q) ==
    /\ Len(p) = Len(q)
    /\ \A i \in 1..Len(p) :
        /\ Len(p[i]) = Len(q[i])
        /\ \A k \in 1..Len(p[i]) : ToAsciiLowercase(p[i][k]) = ToAsciiLowercase(q[i][k])

ExactAddonDir(flavor) == directories[flavor].path \o AddonSubPath
ExactWtfDir(flavor) == directories[flavor].path \o WtfSubPath

\* C1: for a flavor with no entry in wow.directories each of the four resolvers
\* returns None, whatever the filesystem holds, and leaves the filesystem as it was.
C1_NoEntryReturnsNone ==
    [][(called' \in {"root", "addon", "download", "wtf"}
            /\ directories[arg'].kind = "None")
        => (ret' = None /\ fs' = fs /\ created' = "none")]_vars

\* all four resolvers are exercised on an unrecorded flavor over a populated disk;
\* this state is the addon resolver's
C1_Witness ==
    /\ called = "addon"
    /\ directories[arg].kind = "None"
    /\ ret = None
    /\ RetailDir \o <<LowerInterface, LowerAddons>> \in fs

\* C2 (as claimed): root exists, root/Interface/AddOns does not, a case-variant of
\* it does: the addon resolver returns an existing case-variant and creates nothing.
C2_CaseVariantReturned ==
    [][(/\ called' = "addon"
        /\ directories[arg'].kind = "Some"
        /\ Exists(fs, directories[arg'].path)
        /\ ~Exists(fs, ExactAddonDir(arg'))
        /\ \E p \in fs : CaseInsensitiveEqual(p, ExactAddonDir(arg')))
        => (/\ ret'.kind = "Some"
            /\ ret'.path \in fs
            /\ CaseInsensitiveEqual(ret'.path, ExactAddonDir(arg'))
            /\ created' = "none"
            /\ fs' = fs)]_vars

\* C3 (as claimed): root exists and neither the exact path nor a case-variant of
\* it exists: the addon resolver attempts the creation and returns
\* Some(root/Interface/AddOns), whether or not the creation succeeds.
C3_CreatesAndReturnsExact ==
    [][(/\ called' = "addon"
        /\ directories[arg'].kind = "Some"
        /\ Exists(fs, directories[arg'].path)
        /\ ~\E p \in fs : CaseInsensitiveEqual(p, ExactAddonDir(arg')))
        => (/\ ret' = Some(ExactAddonDir(arg'))
            /\ created' \in {"ok", "failed"})]_vars

\* C4: when root/Interface/AddOns exists in exact case the addon resolver returns
\* exactly that path, runs no search, creates nothing and leaves the filesystem
\* unchanged, whatever else exists under the root.
C4_ExactCaseNoSearch ==
    [][(/\ called' = "addon"
        /\ directories[arg'].kind = "Some"
        /\ Exists(fs, ExactAddonDir(arg')))
        => (/\ ret' = Some(ExactAddonDir(arg'))
            /\ ~searched'
            /\ created' = "none"
            /\ fs' = fs)]_vars

\* the exact path was returned without a search while a case-variant and a
\* wildcard match also exist under the root
C4_Witness ==
    /\ called = "addon"
    /\ directories[arg] = Some(RetailDir)
    /\ ret = Some(RetailDir \o AddonSubPath)
    /\ ~searched
    /\ RetailDir \o AddonSubPath \in fs
    /\ RetailDir \o <<LowerInterface, LowerAddons>> \in fs
    /\ RetailDir \o <<Enterface, Oddons>> \in fs

\* C5: the WTF resolver never creates a directory: every call of it leaves the
\* filesystem as it was.
C5_WtfNeverCreates ==
    [][called' = "wtf" => (fs' = fs /\ created' = "none")]_vars

\* the WTF resolver has returned root/WTF for a root that exists and has no WTF
\* directory, and the directory is still missing
C5_Witness ==
    /\ called = "wtf"
    /\ directories[arg] = Some(RetailDir)
    /\ ret = Some(RetailDir \o WtfSubPath)
    /\ searched
    /\ RetailDir \in fs
    /\ RetailDir \o WtfSubPath \notin fs

\* C6 (as claimed): for a flavor with a recorded root the addon and WTF resolvers
\* complete without a panic and return Some(path), for every root text.
C6_NeverFails ==
    (called \in {"addon", "wtf"} /\ directories[arg].kind = "Some")
        => ret.kind = "Some"

\* C9 (as claimed): a path returned by the addon (WTF) resolver differs from
\* root/Interface/AddOns (root/WTF) in letter casing only.
C9_OnlyCaseDiffers ==
    /\ (called = "addon" /\ ret.kind = "Some")
            => CaseInsensitiveEqual(ret.path, ExactAddonDir(arg))
    /\ (called = "wtf" /\ ret.kind = "Some")
            => CaseInsensitiveEqual(ret.path, ExactWtfDir(arg))

====
